---- MODULE Spec2Model ----
(***************************************************************************)
(* A model of the vendor clients of the tools repository:                  *)
(*   - the Slack client        (src/vendors/slack.go),                     *)
(*   - the Google calendar client (src/cmd/root.go, package vendors part), *)
(*   - the telegram command    (src/unnamed/part_000).                     *)
(*                                                                         *)
(* Go strings are sequences of one-character strings, so that emptiness,   *)
(* blankness, splitting, truncation and path base names are computed and   *)
(* not assumed.  Opaque values (URLs, endpoint names, response bodies,     *)
(* error values) are TLA+ strings.                                         *)
(*                                                                         *)
(* One process constructs one client (vendor) and calls its operations.    *)
(* Every operation is one action: its inputs and the outcome of each HTTP  *)
(* exchange it may perform are drawn from bounded sets; the action records *)
(* the requests it issued, in order, in httpLog, and what it returned in   *)
(* result.                                                                 *)
(***************************************************************************)
EXTENDS Integers, Sequences, FiniteSets, TLC

VARIABLES
    vendor,     \* which client this process constructed
    options,    \* the options of that client (telegram: the global telegramOptions)
    pc,         \* position of the process
    call,       \* the operation in progress or just returned, with its inputs
    httpLog,    \* the HTTP requests issued by that operation, in order
    result,     \* what the operation returned: [bytes, err]
    earlier,    \* the access token obtained by an earlier calendar call (history)
    output      \* what the command wrote: output and error report (telegram)

vars == <<vendor, options, pc, call, httpLog, result, earlier, output>>

----------------------------------------------------------------------------
(* Bounds of the model *)

\* longest message text enumerated character by character
MaxLen == 3

----------------------------------------------------------------------------
(* Strings *)

Min(a, b) == IF a < b THEN a ELSE b

Empty == <<>>

\* n copies of character c
Rep(c, n) == [i \in 1..n |-> c]

\* all strings over alphabet of length at most n
StringsUpTo(alphabet, n) == UNION {[1..k -> alphabet] : k \in 0..n}

\* unicode.IsSpace on the characters the model uses
Whitespace == {" ", "\n", "\t"}

\* strings.TrimSpace(s)
TrimSpace(s) ==
    LET keep == {i \in 1..Len(s) : s[i] \notin Whitespace}
    IN  IF keep = {} THEN Empty
        ELSE LET lo == CHOOSE i \in keep : \A j \in keep : i <= j
                 hi == CHOOSE i \in keep : \A j \in keep : j <= i
             IN  SubSeq(s, lo, hi)

\* utils.IsEmpty(s): the string is empty once surrounding white space is trimmed
IsEmpty(s) == Len(TrimSpace(s)) = 0

\* strings.Split(s, sep) for a one-character separator
RECURSIVE Split(_, _)
Split(s, sep) ==
    IF \A i \in 1..Len(s) : s[i] # sep THEN <<s>>
    ELSE LET i == CHOOSE k \in 1..Len(s) :
                      s[k] = sep /\ \A j \in 1..(k - 1) : s[j] # sep
         IN  <<SubSeq(s, 1, i - 1)>> \o Split(SubSeq(s, i + 1, Len(s)), sep)

\* common.TruncateString(str, length): the first length characters of str
TruncateString(str, length) ==
    IF length <= 0 THEN Empty ELSE SubSeq(str, 1, Min(Len(str), length))

----------------------------------------------------------------------------
(* Values shared by the clients *)

NoErr == "nil"
NoBytes == "nil"
NoCall == [op |-> "none"]
NoResult == [bytes |-> NoBytes, err |-> NoErr]
NoOutput == [printed |-> NoBytes, reported |-> NoErr]

\* an HTTP exchange as the Go http client can end it: client.Do fails, the
\* body cannot be read, or a response of any status is read in full
Statuses == {200, 500}
Bodies == {"body1", "body2"}
Outcomes ==
    {[kind |-> "do_error"], [kind |-> "read_error"]}
    \cup [kind : {"response"}, status : Statuses, body : Bodies]

----------------------------------------------------------------------------
(* Slack: src/vendors/slack.go *)

baseURL == "https://slack.com/api/"
filesUpload == "files.upload"
chatPostMessage == "chat.postMessage"
reactionsAdd == "reactions.add"
usersLookupByEmail == "users.lookupByEmail"
usergroupsUsersUpdate == "usergroups.users.update"

\* baseURL + cmd
apiURL(cmd) == <<baseURL, cmd>>

Bearer == <<"B", "e", "a", "r", "e", "r", " ">>
NoTitle == <<"N", "o", " ", "t", "i", "t", "l", "e">>
ErrEmptyMessage == "slack message is empty"

\* the limit sendMessage passes to TruncateString
TitleMax == 150

\* a multipart form: its parts in the order written
Field(name, value) == [kind |-> "field", name |-> name, value |-> value]
FormFile(name, filename, content) ==
    [kind |-> "file", name |-> name, filename |-> filename, value |-> content]

\* the SlackMessage built by Send, SendFile and SendMessage from s.options
\* (ImageURL and QuoteColor only feed the message template and are left out)
MessageOfOptions(o, withFileName) ==
    [Token |-> o.Token, Channel |-> o.Channel, ParentTS |-> o.ParentTS,
     Title |-> o.Title, Message |-> o.Message,
     FileName |-> IF withFileName THEN o.FileName ELSE Empty,
     FileContent |-> o.File]

\* sendMessage: the guard on the message text
MessageMissingNever(m) == FALSE
MessageMissing(m) == m.Message = Empty

\* sendMessage: the first line of lines that is not the empty string, or the
\* empty string when there is none
FirstLineAlways(lines) == lines[1]
FirstNonEmptyLine(lines) ==
    IF \E i \in 1..Len(lines) : lines[i] # Empty
    THEN lines[CHOOSE i \in 1..Len(lines) :
                   lines[i] # Empty /\ \A j \in 1..(i - 1) : lines[j] = Empty]
    ELSE Empty

\* sendMessage: the title the payload gets
TitleOf(m) ==
    IF m.Title = Empty
    THEN LET found == FirstNonEmptyLine(Split(m.Message, "\n"))
             title == IF found = Empty THEN NoTitle ELSE found
         IN  TruncateString(title, TitleMax)
    ELSE m.Title

\* prepareMessage: the JSON payload rendered from the message by the template
prepareMessage(m) ==
    [channel |-> m.Channel, title |-> m.Title, text |-> m.Message,
     thread_ts |-> m.ParentTS]

\* post: the token of the call, or the client's when the call has none
PostToken(s, token) == IF token = Empty THEN s.Token ELSE token

\* post: the request built
PostRequest(s, token, URL, query, contentType, body) ==
    [method |-> "POST", url |-> URL, query |-> query,
     contentType |-> contentType,
     auth |-> Bearer \o PostToken(s, token), body |-> body]

\* post: what is returned for the outcome of the exchange
PostResultChecked(o) ==
    IF o.kind = "response" /\ o.status < 400
    THEN [bytes |-> o.body, err |-> NoErr]
    ELSE [bytes |-> NoBytes, err |-> "http error"]
PostResult(o) ==
    IF o.kind = "do_error" THEN [bytes |-> NoBytes, err |-> "transport error"]
    ELSE IF o.kind = "read_error" THEN [bytes |-> NoBytes, err |-> "read error"]
    ELSE [bytes |-> o.body, err |-> NoErr]

\* post: the requests issued for one call
PostLogRetry(req, o) == IF o.kind = "response" THEN <<req>> ELSE <<req, req>>
PostLog(req, o) == <<req>>

post(s, token, URL, query, contentType, body, o) ==
    LET req == PostRequest(s, token, URL, query, contentType, body)
    IN  [log |-> PostLog(req, o), result |-> PostResult(o)]

sendMessage(s, m, o) ==
    IF MessageMissing(m)
    THEN [log |-> <<>>, result |-> [bytes |-> NoBytes, err |-> ErrEmptyMessage]]
    ELSE LET m2 == [m EXCEPT !.Title = TitleOf(m)]
         IN  post(s, m2.Token, apiURL(chatPostMessage), <<>>,
                  "application/json; charset=utf-8", prepareMessage(m2), o)

\* SendCustom: the form
SendCustomForm(m) ==
    << Field("initial_comment", m.Message),
       Field("title", m.Title),
       Field("content", m.FileContent) >>

SendCustom_(s, m, o) ==
    post(s, m.Token, apiURL(filesUpload), <<<<"channels", s.Channel>>>>,
         "multipart/form-data", SendCustomForm(m), o)

\* SendCustomFile: an optional text field is written when its value is not empty
OptionalFieldAlways(name, value) == <<Field(name, value)>>
OptionalField(name, value) ==
    IF ~IsEmpty(value) THEN <<Field(name, value)>> ELSE <<>>

\* SendCustomFile: the form
SendCustomFileForm(m) ==
    OptionalField("initial_comment", m.Message)
    \o OptionalField("title", m.Title)
    \o OptionalField("thread_ts", m.ParentTS)
    \o <<FormFile("file", m.FileName, m.FileContent)>>

SendCustomFile_(s, m, o) ==
    post(s, m.Token, apiURL(filesUpload), <<<<"channels", m.Channel>>>>,
         "multipart/form-data", SendCustomFileForm(m), o)

\* getAuth
getAuth(opts) == IF ~IsEmpty(opts.Token) THEN Bearer \o opts.Token ELSE Empty

\* common.HttpPostRaw / common.HttpGetRaw: one request with the given
\* authorization, the body of the response or a transport error
HttpRaw(method, URL, query, contentType, auth, body, o) ==
    [log |-> << [method |-> method, url |-> URL, query |-> query,
                 contentType |-> contentType, auth |-> auth, body |-> body] >>,
     result |-> IF o.kind = "response"
                THEN [bytes |-> o.body, err |-> NoErr]
                ELSE [bytes |-> NoBytes, err |-> "transport error"]]

CustomAddReaction_(s, slackOptions, reactionOptions, o) ==
    HttpRaw("POST", apiURL(reactionsAdd), <<>>, "multipart/form-data",
            getAuth(slackOptions),
            << Field("channel", slackOptions.Channel),
               Field("name", reactionOptions.Name),
               Field("timestamp", slackOptions.ParentTS) >>, o)

CustomGetUser_(s, slackOptions, slackUser, o) ==
    HttpRaw("GET", apiURL(usersLookupByEmail), <<<<"email", slackUser.Email>>>>,
            "application/x-www-form-urlencoded", getAuth(slackOptions),
            <<>>, o)

CustomUpdateUsergroup_(s, slackOptions, slackUpdateUsergroup, o) ==
    HttpRaw("POST", apiURL(usergroupsUsersUpdate), <<>>, "application/json",
            getAuth(slackOptions),
            [usergroup |-> slackUpdateUsergroup.Usergroup,
             users |-> slackUpdateUsergroup.Users], o)

(* Inputs of the Slack operations *)

\* the tokens of the client, of a message (post compares with ""), and of
\* per-call options (getAuth asks utils.IsEmpty)
Tokens == {Empty, <<"t">>}
CallTokens == {Empty, <<" ">>, <<"u">>}
OptionTokens == {Empty, <<"u">>}
SmallTexts == {Empty, <<" ">>, <<"a">>}
Titles == {Empty, <<"T">>}
TSs == {Empty, <<"1">>}

\* message texts: every short text, and lines around the title limit
MessageAlphabet == {"a", " ", "\n"}
Messages ==
    StringsUpTo(MessageAlphabet, MaxLen)
    \cup { Rep("a", TitleMax), Rep("a", TitleMax + 1),
           <<"\n", " ">> \o Rep("a", TitleMax),
           <<"\n">> \o Rep("a", TitleMax + 1) \o <<"\n", "a">> }

SlackOptionsSet ==
    [Token : Tokens, Channel : {<<"C">>}, Title : Titles,
     Message : {Empty, <<"\n", "a">>}, FileName : {<<"f">>},
     File : {<<"x">>}, ParentTS : TSs]

TextMessages ==
    [Token : CallTokens, Channel : {<<"D">>}, ParentTS : {Empty},
     Title : Titles, Message : Messages,
     FileName : {Empty}, FileContent : {Empty}]

FileMessages ==
    [Token : CallTokens, Channel : {Empty, <<"D">>}, ParentTS : TSs,
     Title : SmallTexts, Message : SmallTexts,
     FileName : {Empty, <<"f">>}, FileContent : {Empty, <<"x">>}]

ContentMessages ==
    [Token : CallTokens, Channel : {<<"D">>}, ParentTS : TSs,
     Title : SmallTexts, Message : SmallTexts,
     FileName : {Empty}, FileContent : {Empty, <<"x">>}]

CallOptions ==
    [Token : OptionTokens, Channel : {<<"D">>}, Title : {Empty},
     Message : {Empty}, FileName : {Empty}, File : {Empty}, ParentTS : TSs]

ReactionOptions == [Name : {Empty, <<"k">>}]
UserEmails == [Email : {Empty, <<"e">>}]
UsergroupUsers == [Usergroup : {<<"g">>}, Users : {<<>>, << <<"w">> >>}]

(* The Slack operations *)

\* the state after an operation op, called with input m (and extra), returned r
Returned(op, custom, m, extra, o, r) ==
    /\ pc' = "returned"
    /\ call' = [op |-> op, custom |-> custom, m |-> m, extra |-> extra,
                outcome |-> o]
    /\ httpLog' = r.log
    /\ result' = r.result
    /\ UNCHANGED <<vendor, options, earlier, output>>

SlackReady == vendor = "slack" /\ pc = "ready"

SendMessage ==
    /\ SlackReady
    /\ \E o \in Outcomes :
         LET m == MessageOfOptions(options, TRUE)
         IN  Returned("sendMessage", FALSE, m, <<>>, o, sendMessage(options, m, o))

SendCustomMessage ==
    /\ SlackReady
    /\ \E m \in TextMessages, o \in Outcomes :
         Returned("sendMessage", TRUE, m, <<>>, o, sendMessage(options, m, o))

Send ==
    /\ SlackReady
    /\ \E o \in Outcomes :
         LET m == MessageOfOptions(options, FALSE)
         IN  Returned("SendCustom", FALSE, m, <<>>, o, SendCustom_(options, m, o))

SendCustom ==
    /\ SlackReady
    /\ \E m \in ContentMessages, o \in Outcomes :
         Returned("SendCustom", TRUE, m, <<>>, o, SendCustom_(options, m, o))

SendFile ==
    /\ SlackReady
    /\ \E o \in Outcomes :
         LET m == MessageOfOptions(options, TRUE)
         IN  Returned("SendCustomFile", FALSE, m, <<>>, o,
                      SendCustomFile_(options, m, o))

SendCustomFile ==
    /\ SlackReady
    /\ \E m \in FileMessages, o \in Outcomes :
         Returned("SendCustomFile", TRUE, m, <<>>, o,
                  SendCustomFile_(options, m, o))

AddReaction ==
    /\ SlackReady
    /\ \E x \in ReactionOptions, o \in Outcomes :
         Returned("CustomAddReaction", FALSE, options, x, o,
                  CustomAddReaction_(options, options, x, o))

CustomAddReaction ==
    /\ SlackReady
    /\ \E so \in CallOptions, x \in ReactionOptions, o \in Outcomes :
         Returned("CustomAddReaction", TRUE, so, x, o,
                  CustomAddReaction_(options, so, x, o))

GetUser ==
    /\ SlackReady
    /\ \E x \in UserEmails, o \in Outcomes :
         Returned("CustomGetUser", FALSE, options, x, o,
                  CustomGetUser_(options, options, x, o))

CustomGetUser ==
    /\ SlackReady
    /\ \E so \in CallOptions, x \in UserEmails, o \in Outcomes :
         Returned("CustomGetUser", TRUE, so, x, o,
                  CustomGetUser_(options, so, x, o))

UpdateUsergroup ==
    /\ SlackReady
    /\ \E x \in UsergroupUsers, o \in Outcomes :
         Returned("CustomUpdateUsergroup", FALSE, options, x, o,
                  CustomUpdateUsergroup_(options, options, x, o))

CustomUpdateUsergroup ==
    /\ SlackReady
    /\ \E so \in CallOptions, x \in UsergroupUsers, o \in Outcomes :
         Returned("CustomUpdateUsergroup", TRUE, so, x, o,
                  CustomUpdateUsergroup_(options, so, x, o))

\* NewSlack(options)
NewSlack ==
    /\ vendor = "slack"
    /\ options \in SlackOptionsSet
    /\ pc = "ready"

----------------------------------------------------------------------------
(* Google calendar: src/cmd/root.go, package vendors *)

googleOAuthURL == "https://oauth2.googleapis.com"
googleCalendarURL == "https://www.googleapis.com/calendar/v3"
ErrOrderBy == "if orderBy=startTime singleEvents must be true"

startTime == <<"s", "t", "a", "r", "t", "T", "i", "m", "e">>
updated == <<"u", "p", "d", "a", "t", "e", "d">>

\* strconv.FormatBool
FormatBool(b) == IF b THEN <<"t", "r", "u", "e">> ELSE <<"f", "a", "l", "s", "e">>

NoToken == [has |-> FALSE, token |-> Empty]

\* the token exchange as refreshToken can see it end: utils.HttpPostRaw
\* returns an error, or bytes that json.Unmarshal rejects, or bytes that
\* decode to a token response (whose access_token may be empty)
AccessTokens == {Empty, <<"A">>, <<"B">>}
RefreshOutcomes ==
    {[kind |-> "error"], [kind |-> "undecodable"]}
    \cup [kind : {"token"}, token : AccessTokens]

\* the events exchange as utils.HttpGetRawWithHeaders and
\* utils.HttpPostRawWithHeaders return it: an error, or the bytes read
ApiOutcomes == {[kind |-> "error"]} \cup [kind : {"bytes"}, body : Bodies]

\* refreshToken: a credential is written when it is not empty
CredentialAlways(name, value) == <<Field(name, value)>>
Credential(name, value) ==
    IF ~IsEmpty(value) THEN <<Field(name, value)>> ELSE <<>>

\* refreshToken: the form posted to the token endpoint
RefreshForm(opts) ==
    Credential("client_id", opts.OAuthClientID)
    \o Credential("client_secret", opts.OAuthClientSecret)
    \o Credential("refresh_token", opts.RefreshToken)
    \o <<Field("grant_type", <<"r", "e", "f", "r", "e", "s", "h", "_",
                               "t", "o", "k", "e", "n">>)>>

RefreshRequest(opts) ==
    [method |-> "POST", url |-> <<googleOAuthURL, "/token">>, query |-> {},
     contentType |-> "multipart/form-data", auth |-> Empty,
     body |-> RefreshForm(opts)]

\* refreshToken: the exchange failed, in transport or in decoding
RefreshFailedTransportOnly(ro) == ro.kind = "error"
RefreshFailed(ro) == ro.kind \in {"error", "undecodable"}

\* refreshToken: what it returns, [r, err]
refreshToken(opts, ro) ==
    IF RefreshFailed(ro)
    THEN [r |-> NoToken,
          err |-> IF ro.kind = "error" THEN "transport error" ELSE "decode error"]
    ELSE [r |-> [has |-> TRUE,
                 token |-> IF ro.kind = "token" THEN ro.token ELSE Empty],
          err |-> NoErr]

\* the result of the events exchange
ApiResult(ao) ==
    IF ao.kind = "error" THEN [bytes |-> NoBytes, err |-> "transport error"]
    ELSE [bytes |-> ao.body, err |-> NoErr]

\* a query parameter added when its value is not empty
Param(name, value) == IF ~IsEmpty(value) THEN {<<name, value>>} ELSE {}

EventsURL(calendarOptions) ==
    <<googleCalendarURL, "/calendars/", calendarOptions.ID, "/events">>

\* CustomCalendarGetEvents: orderBy=startTime without singleEvents
OrderByInvalid(e) ==
    /\ ~IsEmpty(e.OrderBy)
    /\ e.OrderBy = startTime
    /\ ~e.SingleEvents

\* CustomCalendarGetEvents: the query of the events request
GetEventsParams(r, e) ==
    {<<"access_token", r.token>>}
    \cup Param("timeMin", e.TimeMin)
    \cup Param("timeMax", e.TimeMax)
    \cup {<<"singleEvents", FormatBool(e.SingleEvents)>>}
    \cup Param("orderBy", e.OrderBy)
    \cup Param("q", e.Q)
    \cup {<<"alwaysIncludeEmail", FormatBool(e.AlwaysIncludeEmail)>>}

\* the requests after the token exchange, for an operation that goes on
AfterRefresh(first, req) == <<first, req>>

CustomCalendarGetEvents_(googleOptions, calendarOptions, e, ro, ao) ==
    LET first == RefreshRequest(googleOptions)
        t == refreshToken(googleOptions, ro)
    IN  IF t.err # NoErr
        THEN [log |-> <<first>>, token |-> NoToken,
              result |-> [bytes |-> NoBytes, err |-> t.err]]
        ELSE IF OrderByInvalid(e)
        THEN [log |-> <<first>>, token |-> t.r,
              result |-> [bytes |-> NoBytes, err |-> ErrOrderBy]]
        ELSE [log |-> AfterRefresh(first,
                        [method |-> "GET", url |-> EventsURL(calendarOptions),
                         query |-> GetEventsParams(t.r, e),
                         contentType |-> "", auth |-> Empty, body |-> {}]),
              token |-> t.r,
              result |-> ApiResult(ao)]

\* CustomCalendarInsertEvent: the query of the events request
InsertEventParams(r, e) ==
    {<<"access_token", r.token>>}
    \cup Param("sendUpdates", e.SendUpdates)
    \cup {<<"supportsAttachments", FormatBool(e.SupportsAttachments)>>}

\* a JSON member that omitempty leaves out when the value is empty
OmitEmpty(name, value) == IF value = Empty THEN {} ELSE {<<name, value>>}

\* json.Marshal of a GoogleCalendarEventDataTime
DateTimeJSONWithoutZone(dateTime, timeZone) == OmitEmpty("dateTime", dateTime)
DateTimeJSON(dateTime, timeZone) ==
    OmitEmpty("dateTime", dateTime) \cup OmitEmpty("timeZone", timeZone)

\* CustomCalendarInsertEvent: json.Marshal of the event built
EventJSON(e) ==
    { <<"summary", e.Summary>>,
      <<"description", e.Description>>,
      <<"start", DateTimeJSON(e.Start, e.TimeZone)>>,
      <<"end", DateTimeJSON(e.End, e.TimeZone)>>,
      <<"eventType", <<"d", "e", "f", "a", "u", "l", "t">> >>,
      <<"transparency", <<"t", "r", "a", "n", "s", "p", "a", "r", "e", "n", "t">> >>,
      <<"attendees", <<>> >>,
      <<"guestsCanInviteOthers", TRUE>>,
      <<"guestsCanModify", FALSE>>,
      <<"guestsCanSeeOtherGuests", TRUE>> }
    \cup OmitEmpty("visibility", e.Visibility)
    \cup (IF ~IsEmpty(e.SourceTitle) \/ ~IsEmpty(e.SourceURL)
          THEN {<<"source", {<<"title", e.SourceTitle>>, <<"url", e.SourceURL>>}>>}
          ELSE {})

CustomCalendarInsertEvent_(googleOptions, calendarOptions, e, ro, ao) ==
    LET first == RefreshRequest(googleOptions)
        t == refreshToken(googleOptions, ro)
    IN  IF t.err # NoErr
        THEN [log |-> <<first>>, token |-> NoToken,
              result |-> [bytes |-> NoBytes, err |-> t.err]]
        ELSE [log |-> AfterRefresh(first,
                        [method |-> "POST", url |-> EventsURL(calendarOptions),
                         query |-> InsertEventParams(t.r, e),
                         contentType |-> "", auth |-> Empty,
                         body |-> EventJSON(e)]),
              token |-> t.r,
              result |-> ApiResult(ao)]

(* Inputs of the calendar operations *)

Credentials == {Empty, <<" ">>, <<"i">>}

GoogleClientOptionsSet ==
    [OAuthClientID : {Empty, <<"i">>}, OAuthClientSecret : {Empty, <<" ">>},
     RefreshToken : {Empty, <<"r">>}]

GoogleOptionsSet ==
    [OAuthClientID : Credentials, OAuthClientSecret : Credentials,
     RefreshToken : Credentials]

CalendarOptions == [ID : {"primary"}]

GetEventsOptions ==
    [TimeMin : {Empty, <<"1">>}, TimeMax : {<<"2">>},
     AlwaysIncludeEmail : BOOLEAN,
     OrderBy : {Empty, <<" ">>, startTime, updated},
     Q : {Empty, <<"q">>}, SingleEvents : BOOLEAN]

GetEventsOptionsCustom ==
    [TimeMin : {<<"1">>}, TimeMax : {Empty}, AlwaysIncludeEmail : {FALSE},
     OrderBy : {Empty, startTime}, Q : {Empty}, SingleEvents : BOOLEAN]

InsertEventOptions ==
    [Summary : {<<"s">>}, Description : {<<"d">>},
     Start : {<<"1">>}, End : {<<"2">>}, TimeZone : {Empty, <<"Z">>, <<"Y">>},
     Visibility : {Empty, <<"v">>}, SendUpdates : {Empty, <<"a">>},
     SupportsAttachments : BOOLEAN,
     SourceTitle : {Empty, <<"n">>}, SourceURL : {Empty, <<"l">>}]

InsertEventOptionsCustom ==
    [Summary : {<<"s">>}, Description : {Empty},
     Start : {<<"1">>}, End : {<<"2">>}, TimeZone : {<<"Z">>},
     Visibility : {Empty}, SendUpdates : {Empty},
     SupportsAttachments : {FALSE},
     SourceTitle : {Empty, <<"n">>}, SourceURL : {Empty}]

(* The calendar operations *)

GoogleReturned(op, custom, googleOptions, calendarOptions, e, ro, ao, r) ==
    /\ pc' = "returned"
    /\ call' = [op |-> op, custom |-> custom, m |-> googleOptions,
                extra |-> <<calendarOptions, e>>,
                outcome |-> <<ro, ao>>, token |-> r.token]
    /\ httpLog' = r.log
    /\ result' = r.result
    /\ UNCHANGED <<vendor, options, earlier, output>>

GoogleReady == vendor = "google" /\ pc = "ready"

CalendarGetEvents ==
    /\ GoogleReady
    /\ \E c \in CalendarOptions, e \in GetEventsOptions,
          ro \in RefreshOutcomes, ao \in ApiOutcomes :
         GoogleReturned("GetEvents", FALSE, options, c, e, ro, ao,
                        CustomCalendarGetEvents_(options, c, e, ro, ao))

CustomCalendarGetEvents ==
    /\ GoogleReady
    /\ \E g \in GoogleOptionsSet, c \in CalendarOptions,
          e \in GetEventsOptionsCustom,
          ro \in RefreshOutcomes, ao \in ApiOutcomes :
         GoogleReturned("GetEvents", TRUE, g, c, e, ro, ao,
                        CustomCalendarGetEvents_(g, c, e, ro, ao))

CalendarInsertEvent ==
    /\ GoogleReady
    /\ \E c \in CalendarOptions, e \in InsertEventOptions,
          ro \in RefreshOutcomes, ao \in ApiOutcomes :
         GoogleReturned("InsertEvent", FALSE, options, c, e, ro, ao,
                        CustomCalendarInsertEvent_(options, c, e, ro, ao))

CustomCalendarInsertEvent ==
    /\ GoogleReady
    /\ \E g \in GoogleOptionsSet, c \in CalendarOptions,
          e \in InsertEventOptionsCustom,
          ro \in RefreshOutcomes, ao \in ApiOutcomes :
         GoogleReturned("InsertEvent", TRUE, g, c, e, ro, ao,
                        CustomCalendarInsertEvent_(g, c, e, ro, ao))

\* NewGoogle(options, stdout)
NewGoogle ==
    /\ vendor = "google"
    /\ options \in GoogleClientOptionsSet
    /\ pc = "ready"

----------------------------------------------------------------------------
(* The telegram command: src/unnamed/part_000 *)

\* the files of the machine the command runs on: PathB holds the path PathA
PathA == <<"/", "d", "/", "f">>
PathB == <<"/", "g">>
Files == {PathA, PathB}
ReadFile(path) == IF path = PathB THEN PathA ELSE <<"h", "i">>

\* utils.FileExists
FileExists(path) == path \in Files

\* utils.Content(s): the content of the file s names, or s itself when it
\* names no file; reading the file may fail (readable = FALSE)
Content(s, readable) ==
    IF FileExists(s)
    THEN IF readable THEN [bytes |-> ReadFile(s), err |-> NoErr]
         ELSE [bytes |-> Empty, err |-> "read error"]
    ELSE [bytes |-> s, err |-> NoErr]

\* filepath.Base
Base(path) ==
    IF path = Empty THEN <<".">>
    ELSE LET cut == {i \in 1..Len(path) : \A j \in i..Len(path) : path[j] = "/"}
             stripped == IF cut = {} THEN path
                         ELSE SubSeq(path, 1, (CHOOSE i \in cut : \A j \in cut : i <= j) - 1)
             slashes == {i \in 1..Len(stripped) : stripped[i] = "/"}
             last == IF slashes = {} THEN stripped
                     ELSE SubSeq(stripped,
                                 (CHOOSE i \in slashes : \A j \in slashes : j <= i) + 1,
                                 Len(stripped))
         IN  IF last = Empty THEN <<"/">> ELSE last

\* telegramNew: the file name taken from the content when none is given
FileNameOfAnyContentFile(o) ==
    IF FileExists(o.Content) THEN Base(o.Content) ELSE o.FileName
FileNameOf(o) ==
    IF IsEmpty(o.FileName) /\ FileExists(o.Content) THEN Base(o.Content)
    ELSE o.FileName

\* telegramNew: telegramOptions after the message is resolved
ResolveMessage(o, bytes) == [o EXCEPT !.Message = bytes]

\* telegramNew: telegramOptions after the content is resolved
ResolveContent(o, bytes) == [o EXCEPT !.Content = bytes]

\* telegramNew: telegramOptions when it returns or panics, and whether it
\* panicked; r1 and r2 tell whether the two reads succeed, made whether
\* vendors.NewTelegram returns a client
telegramNew_(o, r1, r2, made) ==
    LET message == Content(o.Message, r1)
        o1 == ResolveMessage(o, message.bytes)
        content == Content(o1.Content, r2)
        o2 == ResolveContent(o1, content.bytes)
        o3 == [o2 EXCEPT !.FileName = FileNameOf(o2)]
    IN  IF message.err # NoErr THEN [options |-> o, panic |-> TRUE]
        ELSE IF content.err # NoErr THEN [options |-> o1, panic |-> TRUE]
        ELSE [options |-> o3, panic |-> ~made]

\* vendors.Telegram: Send, SendPhoto and SendDocument post once to the bot
\* API with the options the client was constructed with
TelegramSend(method, o, out) ==
    [log |-> << [method |-> "POST", url |-> <<o.URL, method>>, query |-> {},
                 contentType |-> "", auth |-> Empty, body |-> o] >>,
     result |-> IF out.kind = "response"
                THEN [bytes |-> out.body, err |-> NoErr]
                ELSE [bytes |-> NoBytes, err |-> "transport error"]]

\* the Run function of a subcommand after telegramNew returned: the error is
\* reported and the command returns, or the bytes are put out
RunOutputWithoutReturn(r) ==
    [printed |-> IF r.bytes = NoBytes THEN "null" ELSE r.bytes,
     reported |-> r.err]
RunOutput(r) ==
    IF r.err # NoErr THEN [printed |-> NoBytes, reported |-> r.err]
    ELSE [printed |-> r.bytes, reported |-> NoErr]

TelegramOptionsSet ==
    [URL : {<<"u">>}, Insecure : {FALSE}, Timeout : {30},
     DisableNotification : BOOLEAN,
     Message : {Empty, <<"h", "i">>, PathA, PathB},
     FileName : {Empty, <<"n">>},
     Content : {Empty, <<"c">>, PathA, PathB}]

\* the flags and the environment are parsed into telegramOptions
TelegramParsed ==
    /\ vendor = "telegram"
    /\ options \in TelegramOptionsSet
    /\ pc = "parsed"

\* telegramNew(stdout)
telegramNew ==
    /\ vendor = "telegram"
    /\ pc = "parsed"
    /\ \E r1 \in BOOLEAN, r2 \in BOOLEAN, made \in BOOLEAN :
         LET t == telegramNew_(options, r1, r2, made)
         IN  /\ options' = t.options
             /\ pc' = IF t.panic THEN "panicked" ELSE "constructed"
             /\ call' = IF t.panic THEN NoCall
                        ELSE [op |-> "telegramNew", m |-> t.options]
    /\ UNCHANGED <<vendor, httpLog, result, earlier, output>>

TelegramRun(method) ==
    /\ vendor = "telegram"
    /\ pc = "constructed"
    /\ \E out \in Outcomes :
         LET r == TelegramSend(method, call.m, out)
         IN  /\ httpLog' = r.log
             /\ result' = r.result
             /\ output' = RunOutput(r.result)
    /\ call' = [call EXCEPT !.op = method]
    /\ pc' = "exited"
    /\ UNCHANGED <<vendor, options, earlier>>

\* telegram send-message
TelegramSendMessage == TelegramRun("sendMessage")

\* telegram send-photo
TelegramSendPhoto == TelegramRun("sendPhoto")

\* telegram send-document
TelegramSendDocument == TelegramRun("sendDocument")

\* the caller takes the result; the client is ready for its next call
NextCall ==
    /\ vendor \in {"slack", "google"}
    /\ pc = "returned"
    /\ pc' = "ready"
    /\ call' = NoCall
    /\ httpLog' = <<>>
    /\ result' = NoResult
    /\ earlier' = IF vendor = "google" /\ call.token.has
                  THEN call.token ELSE earlier
    /\ UNCHANGED <<vendor, options, output>>

----------------------------------------------------------------------------
(* The process *)

Init ==
    /\ call = NoCall
    /\ httpLog = <<>>
    /\ result = NoResult
    /\ earlier = NoToken
    /\ output = NoOutput
    /\ (NewSlack \/ NewGoogle \/ TelegramParsed)

Next ==
    \/ SendMessage
    \/ SendCustomMessage
    \/ Send
    \/ SendCustom
    \/ SendFile
    \/ SendCustomFile
    \/ AddReaction
    \/ CustomAddReaction
    \/ GetUser
    \/ CustomGetUser
    \/ UpdateUsergroup
    \/ CustomUpdateUsergroup
    \/ CalendarGetEvents
    \/ CustomCalendarGetEvents
    \/ CalendarInsertEvent
    \/ CustomCalendarInsertEvent
    \/ telegramNew
    \/ TelegramSendMessage
    \/ TelegramSendPhoto
    \/ TelegramSendDocument
    \/ NextCall

Spec == Init /\ [][Next]_vars

----------------------------------------------------------------------------
(* Properties *)

SlackReturned == vendor = "slack" /\ pc = "returned"
GoogleCallReturned == vendor = "google" /\ pc = "returned"

\* the Slack operations that go through post
PostOps == {"sendMessage", "SendCustom", "SendCustomFile"}

TokenURL == <<googleOAuthURL, "/token">>
IsTokenRequest(req) == req.method = "POST" /\ req.url = TokenURL
IsEventsRequest(req) == req.url[1] = googleCalendarURL /\ req.url[4] = "/events"

\* C1: a call of the event listing with OrderBy = "startTime" and
\* SingleEvents = false returns the validation error and has issued no HTTP
\* request at all, neither the token POST nor the events GET.
C1_InvalidOrderByNoRequest ==
    (/\ GoogleCallReturned
     /\ call.op = "GetEvents"
     /\ call.extra[2].OrderBy = startTime
     /\ ~call.extra[2].SingleEvents)
    => (result.err = ErrOrderBy /\ httpLog = <<>>)

\* a line is blank when it holds nothing but white space
IsBlankLine(line) == \A i \in 1..Len(line) : line[i] \in Whitespace

\* the first i characters of line, at most TitleMax of them
IsTruncationOf(title, line) ==
    /\ Len(title) = Min(Len(line), TitleMax)
    /\ \A k \in 1..Len(title) : title[k] = line[k]

\* a sendMessage call without explicit title that built its payload
TitleDerived ==
    /\ SlackReturned
    /\ call.op = "sendMessage"
    /\ call.m.Message # Empty
    /\ call.m.Title = Empty
    /\ Len(httpLog) >= 1

\* C2 as stated: the derived title is the first non-blank line of the message
\* cut to 150 characters, and "No title" when every line is blank.
C2_TitleFirstNonBlankLine ==
    TitleDerived =>
        LET lines == Split(call.m.Message, "\n")
            title == httpLog[1].body.title
        IN  IF \A i \in 1..Len(lines) : IsBlankLine(lines[i])
            THEN title = NoTitle
            ELSE \E i \in 1..Len(lines) :
                    /\ ~IsBlankLine(lines[i])
                    /\ \A j \in 1..(i - 1) : IsBlankLine(lines[j])
                    /\ IsTruncationOf(title, lines[i])

\* C2 amended: the derived title is the first line of the message that is not
\* the empty string (a line of white space counts) cut to 150 characters, and
\* "No title" when every line is the empty string.
C2_TitleFirstNonEmptyLine ==
    TitleDerived =>
        LET lines == Split(call.m.Message, "\n")
            title == httpLog[1].body.title
        IN  /\ Len(title) <= TitleMax
            /\ IF \A i \in 1..Len(lines) : lines[i] = Empty
               THEN title = NoTitle
               ELSE \E i \in 1..Len(lines) :
                       /\ lines[i] # Empty
                       /\ \A j \in 1..(i - 1) : lines[j] = Empty
                       /\ IsTruncationOf(title, lines[i])

\* C2 witness: a message whose first line is empty and whose second line is
\* longer than 150 characters was sent with the title cut to 150
C2_Witness ==
    /\ TitleDerived
    /\ call.m.Message[1] = "\n"
    /\ Len(Split(call.m.Message, "\n")[2]) > TitleMax
    /\ Len(httpLog[1].body.title) = TitleMax

\* C3: in every messaging operation the request carries the token of the
\* call when that token is not empty, and the client's token otherwise.
C3_TokenOfCallElseClient ==
    (SlackReturned /\ Len(httpLog) >= 1) =>
        LET token == IF call.m.Token # Empty THEN call.m.Token ELSE options.Token
        IN  \/ httpLog[1].auth = Bearer \o token
            \/ token = Empty /\ httpLog[1].auth = Empty

\* C4: in every messaging operation, when neither the call nor the client
\* has a token, the Authorization header of the request is empty.
C4_NoTokenEmptyHeader ==
    (/\ SlackReturned
     /\ Len(httpLog) >= 1
     /\ call.m.Token = Empty
     /\ options.Token = Empty)
    => httpLog[1].auth = Empty

\* C5: every calendar operation issues the token exchange first, on every
\* call; the events request carries the token this call obtained; and when
\* the exchange fails in transport or decoding the operation returns that
\* error and issues no events request.
C5_RefreshFirstEveryCall ==
    GoogleCallReturned =>
        LET ro == call.outcome[1]
        IN  /\ Len(httpLog) >= 1
            /\ IsTokenRequest(httpLog[1])
            /\ \A i \in 2..Len(httpLog) :
                   /\ IsEventsRequest(httpLog[i])
                   /\ ro.kind = "token"
                   /\ <<"access_token", ro.token>> \in httpLog[i].query
                   /\ \A p \in httpLog[i].query :
                          p[1] = "access_token" => p[2] = ro.token
            /\ ro.kind = "error" =>
                   (result = [bytes |-> NoBytes, err |-> "transport error"]
                    /\ Len(httpLog) = 1)
            /\ ro.kind = "undecodable" =>
                   (result = [bytes |-> NoBytes, err |-> "decode error"]
                    /\ Len(httpLog) = 1)

\* C5 witness: an earlier call obtained one token, this call obtained another
\* and its events request carries the new one
C5_Witness ==
    /\ GoogleCallReturned
    /\ earlier.has
    /\ call.outcome[1].kind = "token"
    /\ call.outcome[1].token # earlier.token
    /\ Len(httpLog) = 2
    /\ <<"access_token", call.outcome[1].token>> \in httpLog[2].query

FieldsNamed(form, name) ==
    {i \in 1..Len(form) : form[i].kind = "field" /\ form[i].name = name}
FileParts(form) == {i \in 1..Len(form) : form[i].kind = "file"}

\* the optional text fields of an upload and the values they come from
OptionalTexts(m) ==
    { <<"initial_comment", m.Message>>, <<"title", m.Title>>,
      <<"thread_ts", m.ParentTS>> }

UploadReturned(op) == SlackReturned /\ call.op = op /\ Len(httpLog) >= 1

\* C6 as stated: in every upload (Send / SendCustom and SendFile /
\* SendCustomFile) the form holds the comment, title and thread timestamp
\* only when the value is not empty, and always a file part with the file
\* name and the content.
C6_UploadFormAllOperations ==
    (UploadReturned("SendCustom") \/ UploadReturned("SendCustomFile")) =>
        LET form == httpLog[1].body
        IN  /\ \A t \in OptionalTexts(call.m) :
                   FieldsNamed(form, t[1]) # {} => t[2] # Empty
            /\ \E i \in FileParts(form) :
                   /\ form[i].filename = call.m.FileName
                   /\ form[i].value = call.m.FileContent

\* C6 amended: SendFile / SendCustomFile write each of the comment, title and
\* thread timestamp only when its value is not empty (and always when it has
\* a character that is not white space), then one file part with the file
\* name and the content; Send / SendCustom write exactly the fields
\* initial_comment, title and content, empty or not, and no file part.
C6_UploadForms ==
    /\ UploadReturned("SendCustomFile") =>
        LET form == httpLog[1].body
        IN  /\ \A t \in OptionalTexts(call.m) :
                   /\ FieldsNamed(form, t[1]) # {} => t[2] # Empty
                   /\ ~IsBlankLine(t[2]) => Cardinality(FieldsNamed(form, t[1])) = 1
                   /\ \A i \in FieldsNamed(form, t[1]) : form[i].value = t[2]
            /\ FileParts(form) = {Len(form)}
            /\ form[Len(form)].name = "file"
            /\ form[Len(form)].filename = call.m.FileName
            /\ form[Len(form)].value = call.m.FileContent
    /\ UploadReturned("SendCustom") =>
        LET form == httpLog[1].body
        IN  /\ Len(form) = 3
            /\ FileParts(form) = {}
            /\ form[1].name = "initial_comment" /\ form[1].value = call.m.Message
            /\ form[2].name = "title" /\ form[2].value = call.m.Title
            /\ form[3].name = "content" /\ form[3].value = call.m.FileContent

\* C6 witness: a file was sent with a comment and with neither title nor
\* thread timestamp: the form holds the comment and the file part only
C6_Witness ==
    /\ UploadReturned("SendCustomFile")
    /\ call.m.Message = <<"a">>
    /\ call.m.Title = Empty
    /\ call.m.ParentTS = Empty
    /\ call.m.FileContent = <<"x">>
    /\ Len(httpLog[1].body) = 2

\* C7: post returns the body of the response with no error whatever the
\* status of the response is, and returns an error exactly when the exchange
\* failed in transport (the request or the reading of the body).
C7_StatusNotInspected ==
    (SlackReturned /\ call.op \in PostOps /\ Len(httpLog) >= 1) =>
        /\ call.outcome.kind = "response" =>
               result = [bytes |-> call.outcome.body, err |-> NoErr]
        /\ result.err # NoErr <=> call.outcome.kind \in {"do_error", "read_error"}
        /\ result.err # NoErr => result.bytes = NoBytes

\* C7 witness: a response of status 500 was returned as bytes without error
C7_Witness ==
    /\ SlackReturned
    /\ call.op \in PostOps
    /\ call.outcome.kind = "response"
    /\ call.outcome.status = 500
    /\ result = [bytes |-> call.outcome.body, err |-> NoErr]

\* C8: sendMessage with an empty message text returns the validation error
\* and issues no HTTP request, whatever the title, channel and token are.
C8_EmptyMessageRejected ==
    (SlackReturned /\ call.op = "sendMessage" /\ call.m.Message = Empty) =>
        /\ result = [bytes |-> NoBytes, err |-> ErrEmptyMessage]
        /\ httpLog = <<>>

\* C8 witness: an empty message with a title and a token was rejected
C8_Witness ==
    /\ SlackReturned
    /\ call.op = "sendMessage"
    /\ call.m.Message = Empty
    /\ call.m.Title # Empty
    /\ call.m.Token # Empty
    /\ result.err = ErrEmptyMessage

\* C9 as stated: no step of a command changes any field of the options.
C9_OptionsNeverChange == [][options' = options]_vars

\* C9 amended: the options change in no step but telegramNew, which may
\* replace Message and Content by the resolved content and fill a FileName
\* that was empty; the other fields never change, and nothing changes once
\* telegramNew has returned.
C9_OptionsChangeOnlyInTelegramNew ==
    [][options' # options =>
         /\ vendor = "telegram"
         /\ pc = "parsed"
         /\ pc' \in {"constructed", "panicked"}
         /\ options'.URL = options.URL
         /\ options'.Insecure = options.Insecure
         /\ options'.Timeout = options.Timeout
         /\ options'.DisableNotification = options.DisableNotification
         /\ options'.FileName # options.FileName => IsEmpty(options.FileName)]_vars

\* C9 witness: a command ran to its end after telegramNew resolved the
\* message and filled the file name, and the options are still those the
\* client was constructed with
C9_Witness ==
    /\ vendor = "telegram"
    /\ pc = "exited"
    /\ options = call.m
    /\ options.Message = PathA
    /\ options.FileName = Base(PathA)

\* C10: an operation is one round trip without retry: a messaging operation
\* issues at most one request, a calendar operation at most two, the token
\* exchange and then the events request, and after a request that failed
\* the operation returns the error and issues nothing further.
C10_SingleRoundTrip ==
    /\ SlackReturned =>
        /\ Len(httpLog) <= 1
        /\ (Len(httpLog) = 1 /\ call.outcome.kind # "response") =>
               result.err # NoErr
    /\ GoogleCallReturned =>
        /\ Len(httpLog) <= 2
        /\ Len(httpLog) >= 1 => IsTokenRequest(httpLog[1])
        /\ Len(httpLog) = 2 =>
               /\ IsEventsRequest(httpLog[2])
               /\ call.outcome[1].kind = "token"
               /\ call.outcome[2].kind = "error" => result.err # NoErr
        /\ call.outcome[1].kind # "token" =>
               (Len(httpLog) = 1 /\ result.err # NoErr)

\* C10 witness: a calendar call whose events request failed returned the
\* error after two requests
C10_Witness ==
    /\ GoogleCallReturned
    /\ Len(httpLog) = 2
    /\ call.outcome[2].kind = "error"
    /\ result.err # NoErr

\* C11: in send-message, send-photo and send-document, when the send call
\* returns an error the error is reported and the command returns with no
\* output; output is produced only after a send call that returned no error,
\* and is then the bytes that call returned.
C11_OutputOnlyAfterSuccess ==
    vendor = "telegram" =>
        /\ pc # "exited" => output = NoOutput
        /\ pc = "exited" =>
            /\ call.op \in {"sendMessage", "sendPhoto", "sendDocument"}
            /\ result.err # NoErr =>
                   output = [printed |-> NoBytes, reported |-> result.err]
            /\ output.printed # NoBytes =>
                   /\ result.err = NoErr
                   /\ output = [printed |-> result.bytes, reported |-> NoErr]

\* C11 witness: send-photo ended with the error of the send call reported
\* and nothing put out
C11_Witness ==
    /\ vendor = "telegram"
    /\ pc = "exited"
    /\ call.op = "sendPhoto"
    /\ result.err # NoErr
    /\ output.reported = result.err
    /\ output.printed = NoBytes

GrantType == <<"r", "e", "f", "r", "e", "s", "h", "_", "t", "o", "k", "e", "n">>

\* the credentials of a calendar call and the form fields they are posted in
CredentialFields(opts) ==
    { <<"client_id", opts.OAuthClientID>>,
      <<"client_secret", opts.OAuthClientSecret>>,
      <<"refresh_token", opts.RefreshToken>> }

\* the form of the token request holds grant_type = refresh_token, once
HasGrantType(form) ==
    /\ Cardinality(FieldsNamed(form, "grant_type")) = 1
    /\ \A i \in FieldsNamed(form, "grant_type") : form[i].value = GrantType

\* C12 as stated: every token request holds grant_type = refresh_token, and
\* each of client_id, client_secret and refresh_token is in the body exactly
\* when its value is not the empty string.
C12_CredentialsWhenNonEmpty ==
    GoogleCallReturned =>
        LET form == httpLog[1].body
        IN  /\ HasGrantType(form)
            /\ \A c \in CredentialFields(call.m) :
                   /\ FieldsNamed(form, c[1]) # {} <=> c[2] # Empty
                   /\ \A i \in FieldsNamed(form, c[1]) : form[i].value = c[2]

\* C12 amended: every token request holds grant_type = refresh_token, once,
\* whatever the credentials are; each of client_id, client_secret and
\* refresh_token is in the body, once and with its value, exactly when the
\* value has a character that is not white space (utils.IsEmpty): an empty
\* credential and a credential of white space only are both left out.
C12_CredentialsWhenNotBlank ==
    GoogleCallReturned =>
        LET form == httpLog[1].body
        IN  /\ HasGrantType(form)
            /\ \A c \in CredentialFields(call.m) :
                   /\ Cardinality(FieldsNamed(form, c[1]))
                          = IF IsBlankLine(c[2]) THEN 0 ELSE 1
                   /\ \A i \in FieldsNamed(form, c[1]) : form[i].value = c[2]
            /\ \A i \in 1..Len(form) :
                   /\ form[i].kind = "field"
                   /\ form[i].name \in {"client_id", "client_secret",
                                        "refresh_token", "grant_type"}

\* C12 witness: a token request for a client ID, no client secret and a
\* refresh token of white space holds the client ID and the grant type only
C12_Witness ==
    /\ GoogleCallReturned
    /\ call.m.OAuthClientID = <<"i">>
    /\ call.m.OAuthClientSecret = Empty
    /\ call.m.RefreshToken = <<" ">>
    /\ Len(httpLog[1].body) = 2
    /\ HasGrantType(httpLog[1].body)

\* the members of a JSON object under one key
Members(object, key) == {p \in object : p[1] = key}

\* the members every inserted event is to carry
EventDefaults ==
    { <<"guestsCanInviteOthers", TRUE>>,
      <<"guestsCanModify", FALSE>>,
      <<"guestsCanSeeOtherGuests", TRUE>>,
      <<"transparency", <<"t", "r", "a", "n", "s", "p", "a", "r", "e", "n", "t">> >>,
      <<"eventType", <<"d", "e", "f", "a", "u", "l", "t">> >> }

\* a start or end of the payload holds this time and this time zone (a time
\* zone that is the empty string is left out by omitempty)
IsDateTime(object, dateTime, timeZone) ==
    /\ Members(object, "dateTime") = {<<"dateTime", dateTime>>}
    /\ Members(object, "timeZone") =
           IF timeZone = Empty THEN {} ELSE {<<"timeZone", timeZone>>}

InsertPosted ==
    GoogleCallReturned /\ call.op = "InsertEvent" /\ Len(httpLog) = 2

\* C13: every event payload built by the event insertion carries
\* guestsCanInviteOthers = true, guestsCanModify = false,
\* guestsCanSeeOtherGuests = true, transparency = "transparent" and
\* eventType = "default", whatever the caller's event fields are, and the
\* caller's one time zone in both start and end.
C13_EventDefaults ==
    InsertPosted =>
        LET body == httpLog[2].body
            e == call.extra[2]
        IN  /\ \A d \in EventDefaults : Members(body, d[1]) = {d}
            /\ Cardinality(Members(body, "start")) = 1
            /\ Cardinality(Members(body, "end")) = 1
            /\ \A p \in Members(body, "start") : IsDateTime(p[2], e.Start, e.TimeZone)
            /\ \A p \in Members(body, "end") : IsDateTime(p[2], e.End, e.TimeZone)

\* C13 witness: an event with visibility, source, attachments and a time
\* zone of its own was posted with the fixed defaults and that time zone in
\* start and end
C13_Witness ==
    /\ InsertPosted
    /\ call.extra[2].Visibility = <<"v">>
    /\ call.extra[2].SourceTitle = <<"n">>
    /\ call.extra[2].SupportsAttachments
    /\ call.extra[2].TimeZone = <<"Y">>
    /\ Members(httpLog[2].body, "guestsCanModify") = {<<"guestsCanModify", FALSE>>}
    /\ \A p \in Members(httpLog[2].body, "end") :
           <<"timeZone", <<"Y">> >> \in p[2]

====
